---------------------------- MODULE Spec2Model ----------------------------
(***************************************************************************)
(* A model of the PCB defect-detection pipeline of vraq:                   *)
(*   src/models/detection.py        DefectDetector                         *)
(*   src/models/image_processing.py ImageProcessor                         *)
(*   src/config/settings.py         Config                                 *)
(*                                                                         *)
(* Number representation.  TLA+ has no floating point, so every float of   *)
(* the program is carried by an integer that determines it:                *)
(*   - confidence is carried in hundredths: the code's                     *)
(*       1.0 - distance / 100.0   is   100 - distance   hundredths,        *)
(*     and CONFIDENCE_THRESHOLD 0.8 is 80 hundredths;                      *)
(*   - deviation = sqrt(dx^2 + dy^2) is carried by its square, and         *)
(*       deviation > LOCATION_TOLERANCE  is  dx^2 + dy^2 > tolerance^2;    *)
(*   - circularity = 4*pi*area/perimeter^2 > 0.7 is decided as             *)
(*       40*355*area > 7*113*perimeter^2   (pi as 355/113), which agrees   *)
(*     with the float evaluation for all integer area <= 2000 and          *)
(*     perimeter <= 400;                                                   *)
(*   - a marker coordinate is carried as an exact fraction <<num, den>>.   *)
(* An image is carried by what the imaging library returns for it: its     *)
(* shape, the contours found in it, whether ORB finds descriptors in it.   *)
(***************************************************************************)
EXTENDS Integers, Sequences, FiniteSets, TLC

VARIABLES
    stage,              \* position of analyze_pcb
    analysis_id,        \* argument of analyze_pcb
    reference_img,      \* argument of analyze_pcb
    test_img,           \* argument of analyze_pcb
    components,         \* local of analyze_pcb: result of _detect_components
    next_idx,           \* position of the loop "for component in components"
    observations,       \* what ORB/BFMatcher returned for each component matched
    component_results,  \* local of analyze_pcb
    defect_markers,     \* local of analyze_pcb
    overall_status,     \* local of analyze_pcb
    raised,             \* the exception a stage raised, or None
    report,             \* the dictionary analyze_pcb returned, or None
    cls_in,             \* arguments of one _classify_component_type call
    cls_out,            \* its return value, or None
    orb_in,             \* arguments and library answers of one _analyze_component_orb call
    orb_out,            \* its return value, or None
    pre_in,             \* argument of the first of successive preprocess_image calls
    pre_out,            \* what each of these calls returned or raised
    vr_in,              \* argument of one _calculate_vr_position call, and the image analysed
    vr_out,             \* its return value, or None
    detector,           \* the attributes of the shared DefectDetector
    runs                \* the analyze_pcb calls running concurrently on it, or None

vars == <<stage, analysis_id, reference_img, test_img, components, next_idx,
          observations, component_results, defect_markers, overall_status,
          raised, report, cls_in, cls_out, orb_in, orb_out,
          pre_in, pre_out, vr_in, vr_out, detector, runs>>

pipelineVars == <<stage, analysis_id, reference_img, test_img, components,
                  next_idx, observations, component_results, defect_markers,
                  overall_status, raised, report>>

\* the variables of the single calls and of the concurrent analyses
callVars == <<cls_in, cls_out, orb_in, orb_out, pre_in, pre_out, vr_in, vr_out,
              detector, runs>>

\* Python's None.  Every optional value of the model is a sequence or a record,
\* which TLC can compare with the empty sequence.
None == << >>

\* the value of cls_out before _classify_component_type was called
NotCalled == "not_called"

-----------------------------------------------------------------------------
(* Configuration: src/config/settings.py                                   *)

\* CONFIDENCE_THRESHOLD = 0.8, in hundredths
CONFIDENCE_THRESHOLD == 80

\* LOCATION_TOLERANCE = 10 pixels
LOCATION_TOLERANCE == 10

\* the minimum contour area kept by _detect_components
MIN_AREA == 100

\* the distance that the confidence normalisation divides by
DISTANCE_SCALE == 100

\* the area above which a contour is an "ic"
IC_AREA == 1000

\* reference dimensions of _calculate_vr_position
REF_WIDTH == 1920

REF_HEIGHT == 1080

\* self.max_dimension of ImageProcessor
MAX_DIMENSION == 1920

-----------------------------------------------------------------------------
(* Bounds of the model                                                     *)

\* longest contour list of a reference image matched against a textured test image
MaxContours == 3

\* length of the long contour list (matched against a featureless test image)
LongBoard == 11

\* largest best-match descriptor distance enumerated for one matcher call
MaxDistance == 130

\* largest pixel offset between detected and expected center enumerated
MaxOffset == 11

\* largest contour area enumerated for one classifier call, in hundreds
MaxAreaHundreds == 12

\* largest contour perimeter enumerated for one classifier call, in tens
MaxPerimeterTens == 20

\* largest bounding-box side enumerated for one classifier call
MaxSide == 5

\* number of analyses running concurrently on the shared detector
NumRequests == 2

-----------------------------------------------------------------------------
(* _classify_component_type                                                *)

\* circularity > 0.7, with circularity = 4*pi*area/perimeter^2 when
\* perimeter > 0 and 0 otherwise
CircularityAbove07(area, perimeter) ==
    IF perimeter > 0
    THEN 40 * 355 * area > 7 * 113 * perimeter * perimeter
    ELSE FALSE

\* aspect_ratio > 2 or aspect_ratio < 0.5, with aspect_ratio = width/height
\* when height > 0 and 1 otherwise
AspectRatioExtreme(width, height) ==
    IF height > 0
    THEN width > 2 * height \/ 2 * width < height
    ELSE FALSE

ClassifyResistorFirst(area, perimeter, width, height) ==
    IF AspectRatioExtreme(width, height) THEN "resistor"
    ELSE IF CircularityAbove07(area, perimeter) THEN "capacitor"
    ELSE IF area > IC_AREA THEN "ic"
    ELSE "component"

ClassifyComponentType(area, perimeter, width, height) ==
    IF CircularityAbove07(area, perimeter) THEN "capacitor"
    ELSE IF AspectRatioExtreme(width, height) THEN "resistor"
    ELSE IF area > IC_AREA THEN "ic"
    ELSE "component"

-----------------------------------------------------------------------------
(* _detect_components                                                      *)

\* the decimal digits of n >= 0, most significant first
RECURSIVE Digits(_)
Digits(n) == IF n < 10 THEN <<n>> ELSE Append(Digits(n \div 10), n % 10)

\* format spec "02d": at least two digits, padded with zeros on the left
Format02d(n) == IF n < 10 THEN <<0, n>> ELSE Digits(n)

\* f"{component_type}_{component_id:02d}"
ComponentName(component_type, component_id) ==
    <<component_type, "_">> \o Format02d(component_id)

\* the component built from one accepted contour
MakeComponent(contour, component_id) ==
    LET x == contour.box[1]
        y == contour.box[2]
        w == contour.box[3]
        h == contour.box[4]
        component_type ==
            ClassifyComponentType(contour.area, contour.perimeter, w, h)
    IN  [ name              |-> ComponentName(component_type, component_id),
          type              |-> component_type,
          template          |-> <<x, y, w, h>>,
          expected_location |-> <<x + (w \div 2), y + (h \div 2)>>,
          bounding_box      |-> <<x, y, w, h>>,
          area              |-> contour.area ]

\* the loop over the contours, from contour i on, with the next component_id
RECURSIVE DetectFrom(_, _, _)
DetectFrom(contours, i, component_id) ==
    IF i > Len(contours) THEN << >>
    ELSE IF contours[i].area < MIN_AREA
         THEN DetectFrom(contours, i + 1, component_id)
         ELSE <<MakeComponent(contours[i], component_id)>>
              \o DetectFrom(contours, i + 1, component_id + 1)

DetectComponentsCountingAll(contours) ==
    LET RECURSIVE Go(_)
        Go(i) ==
            IF i > Len(contours) THEN << >>
            ELSE IF contours[i].area < MIN_AREA THEN Go(i + 1)
                 ELSE <<MakeComponent(contours[i], i)>> \o Go(i + 1)
    IN  Go(1)

DetectComponents(contours) == DetectFrom(contours, 1, 1)

-----------------------------------------------------------------------------
(* _analyze_component_orb                                                  *)
(*                                                                         *)
(* An observation is what the imaging library answers inside one call:     *)
(*   des1    whether ORB found descriptors in the template                 *)
(*   des2    whether ORB found descriptors in the test image               *)
(*   matches the list bf.match returned, each match with its descriptor    *)
(*           distance and the position pt of its test-image keypoint, in   *)
(*           half pixels (keypoint positions are floats, int() truncates)  *)

\* int(detected_kp.pt[k]) for a position given in half pixels
IntOfPt(half_pixels) == half_pixels \div 2

\* sorted(matches, key=lambda x: x.distance)[0]: the first match of least
\* distance (sorted is stable)
BestMatch(matches) ==
    LET least == CHOOSE i \in 1..Len(matches) :
                    /\ \A j \in 1..Len(matches) :
                          matches[i].distance <= matches[j].distance
                    /\ \A j \in 1..(i - 1) :
                          matches[j].distance > matches[i].distance
    IN  matches[least]

\* (detected_center[0] - expected_loc[0])**2 + (detected_center[1] - expected_loc[1])**2,
\* the square of deviation
DeviationSquared(detected_center, expected_loc) ==
    (detected_center[1] - expected_loc[1]) * (detected_center[1] - expected_loc[1])
    + (detected_center[2] - expected_loc[2]) * (detected_center[2] - expected_loc[2])

\* deviation > self.location_tolerance
DeviationAboveTolerance(deviation_squared) ==
    deviation_squared > LOCATION_TOLERANCE * LOCATION_TOLERANCE

\* 1.0 - (best_match.distance / 100.0), in hundredths
Confidence(distance) == DISTANCE_SCALE - distance

\* the dictionary returned when there is nothing to match
MissingResult(component) ==
    [ name              |-> component.name,
      status            |-> "MISSING",
      confidence        |-> 0,
      expected_location |-> component.expected_location,
      detected_location |-> None,
      deviation_pixels  |-> None,
      component_type    |-> component.type ]

\* the status decision on a best match: <<status, detected_location, deviation_pixels>>
StatusInclusiveBounds(confidence, detected_center, deviation_squared) ==
    IF confidence <= CONFIDENCE_THRESHOLD
    THEN <<"MISSING", None, None>>
    ELSE IF deviation_squared >= LOCATION_TOLERANCE * LOCATION_TOLERANCE
    THEN <<"MISALIGNED", detected_center, [squared |-> deviation_squared]>>
    ELSE <<"OK", detected_center, [squared |-> deviation_squared]>>

StatusKeepsLocation(confidence, detected_center, deviation_squared) ==
    IF confidence < CONFIDENCE_THRESHOLD
    THEN <<"MISSING", detected_center, None>>
    ELSE IF DeviationAboveTolerance(deviation_squared)
    THEN <<"MISALIGNED", detected_center, [squared |-> deviation_squared]>>
    ELSE <<"OK", detected_center, [squared |-> deviation_squared]>>

StatusDecision(confidence, detected_center, deviation_squared) ==
    IF confidence < CONFIDENCE_THRESHOLD
    THEN <<"MISSING", None, None>>
    ELSE IF DeviationAboveTolerance(deviation_squared)
    THEN <<"MISALIGNED", detected_center, [squared |-> deviation_squared]>>
    ELSE <<"OK", detected_center, [squared |-> deviation_squared]>>

\* the dictionary returned for a best match
MatchedResult(component, best_match) ==
    LET detected_center == <<IntOfPt(best_match.pt[1]), IntOfPt(best_match.pt[2])>>
        deviation_squared ==
            DeviationSquared(detected_center, component.expected_location)
        confidence == Confidence(best_match.distance)
        decision == StatusDecision(confidence, detected_center, deviation_squared)
    IN  [ name              |-> component.name,
          status            |-> decision[1],
          confidence        |-> confidence,
          expected_location |-> component.expected_location,
          detected_location |-> decision[2],
          deviation_pixels  |-> decision[3],
          component_type    |-> component.type ]

\* the call when "if matches:" is missing: matches[0] of an empty list raises
AnalyzeComponentOrbIndexesEmpty(component, obs) ==
    IF ~obs.des1 \/ ~obs.des2 THEN MissingResult(component)
    ELSE IF obs.matches /= << >>
         THEN MatchedResult(component, BestMatch(obs.matches))
         ELSE [raises |-> [type |-> "IndexError", str |-> "list index out of range"]]

\* the call returns a dictionary; a call that raised e is [raises |-> e]
AnalyzeComponentOrb(component, obs) ==
    IF ~obs.des1 \/ ~obs.des2 THEN MissingResult(component)
    ELSE IF obs.matches /= << >>
         THEN MatchedResult(component, BestMatch(obs.matches))
         ELSE MissingResult(component)

-----------------------------------------------------------------------------
(* _calculate_vr_position                                                  *)

\* the position normalised by the width and height of the image analysed
CalculateVrPositionByImage(image_coords) ==
    [ x |-> <<2 * image_coords[1] - vr_in.image.width, 2 * vr_in.image.width>>,
      y |-> <<0, 1>>,
      z |-> <<vr_in.image.height - 2 * image_coords[2], 2 * vr_in.image.height>> ]

\* x = image_coords[0]/1920.0 - 0.5, y = 0.0, z = 0.5 - image_coords[1]/1080.0,
\* each as the fraction <<numerator, denominator>>
CalculateVrPosition(image_coords) ==
    [ x |-> <<2 * image_coords[1] - REF_WIDTH, 2 * REF_WIDTH>>,
      y |-> <<0, 1>>,
      z |-> <<REF_HEIGHT - 2 * image_coords[2], 2 * REF_HEIGHT>> ]

-----------------------------------------------------------------------------
(* The inputs enumerated: images, contours, library answers, exceptions    *)

\* contours as cv2.findContours, contourArea, arcLength and boundingRect
\* describe them; the template cut at a contour's box is textured when ORB
\* finds descriptors in it
NoiseContour ==
    [area |-> 99, perimeter |-> 40, box |-> <<5, 5, 10, 10>>, textured |-> TRUE]

CapacitorContour ==
    [area |-> 100, perimeter |-> 40, box |-> <<20, 10, 10, 10>>, textured |-> TRUE]

ResistorContour ==
    [area |-> 300, perimeter |-> 80, box |-> <<40, 30, 30, 10>>, textured |-> FALSE]

ContourSamples == {NoiseContour, CapacitorContour, ResistorContour}

\* the contour moved to the right by dx pixels
Shifted(contour, dx) ==
    [contour EXCEPT !.box = <<contour.box[1] + dx, contour.box[2],
                              contour.box[3], contour.box[4]>>]

\* contour lists of up to MaxContours contours, the i-th one 100*(i-1) pixels
\* to the right of its sample
ShortBoards ==
    UNION { { [i \in 1..n |-> Shifted(kinds[i], 100 * (i - 1))] :
                kinds \in [1..n -> ContourSamples] } : n \in 0..MaxContours }

\* one list of LongBoard contours: capacitors, the second contour noise
LongBoardContours ==
    [i \in 1..LongBoard |->
        Shifted(IF i = 2 THEN NoiseContour ELSE CapacitorContour, 100 * (i - 1))]

ReferenceImage(contours) ==
    [channels |-> 3, width |-> 1280, height |-> 720, contours |-> contours]

\* a single-channel array: cv2.cvtColor(..., COLOR_BGR2GRAY) raises on it
GrayReferenceImage ==
    [channels |-> 1, width |-> 1280, height |-> 720, contours |-> << >>]

TexturedTestImage ==
    [channels |-> 3, width |-> 640, height |-> 480, has_features |-> TRUE]

BlankTestImage ==
    [channels |-> 3, width |-> 1920, height |-> 1080, has_features |-> FALSE]

GrayTestImage ==
    [channels |-> 1, width |-> 640, height |-> 480, has_features |-> TRUE]

\* the (reference, test) pairs analysed
ImagePairs ==
    ({ReferenceImage(b) : b \in ShortBoards} \cup {GrayReferenceImage})
        \X {TexturedTestImage, BlankTestImage, GrayTestImage}
    \cup {<<ReferenceImage(LongBoardContours), BlankTestImage>>}

AnalysisIds == {"id-a", "id-b"}

\* datetime.utcnow().isoformat()
ClockReadings == {"2026-01-01T00:00:00", "2026-01-01T00:00:01"}

\* exceptions, each with the text str(e) gives; the first is what cvtColor
\* raises on an image it does not accept
CvtColorError ==
    [type |-> "cv2.error", str |-> "cvtColor: Invalid number of channels in input image"]

\* the failures of a library call on a well-formed image
LibraryErrors ==
    { [type |-> "cv2.error", str |-> "(-4:Insufficient memory) Failed to allocate"],
      [type |-> "cv2.error", str |-> "(-215:Assertion failed)"] }

\* whether cv2.cvtColor(img, cv2.COLOR_BGR2GRAY) accepts the image
Convertible(img) ==
    img.channels \in {3, 4} /\ img.width > 0 /\ img.height > 0

\* a keypoint position, in half pixels, whose truncation is center
PtOf(center) == <<2 * center[1] + 1, 2 * center[2]>>

\* what the library answers when a component is matched inside analyze_pcb:
\* no descriptors, no match, or one match at the threshold distance or one
\* above it, at the tolerance deviation or above it
PipelineObservations(component, contour, test) ==
    IF ~contour.textured \/ ~test.has_features
    THEN { [des1 |-> contour.textured, des2 |-> test.has_features, matches |-> << >>] }
    ELSE { [des1 |-> TRUE, des2 |-> TRUE, matches |-> << >>] }
         \cup
         { [des1 |-> TRUE, des2 |-> TRUE,
            matches |-> << [distance |-> d,
                            pt |-> PtOf(<<component.expected_location[1] + off[1],
                                          component.expected_location[2] + off[2]>>)] >>] :
             d \in {DISTANCE_SCALE - CONFIDENCE_THRESHOLD,
                    DISTANCE_SCALE - CONFIDENCE_THRESHOLD + 1},
             off \in {<<6, 8>>, <<0, 11>>} }

-----------------------------------------------------------------------------
(* analyze_pcb                                                             *)

\* the marker appended for a component that is not OK
DefectMarkerFromDetected(result) ==
    [ position  |-> CalculateVrPosition(
                        IF result.detected_location = None
                        THEN result.expected_location
                        ELSE result.detected_location),
      type      |-> result.status,
      component |-> result.name ]

DefectMarker(result) ==
    [ position  |-> CalculateVrPosition(result.expected_location),
      type      |-> result.status,
      component |-> result.name ]

\* overall_status after one more result
StatusOfLastResult(status, result) ==
    IF result.status /= "OK" THEN "DEFECTS_FOUND" ELSE "OK"

NextOverallStatus(status, result) ==
    IF result.status /= "OK" THEN "DEFECTS_FOUND" ELSE status

\* defect_markers after one more result
NextDefectMarkers(markers, result) ==
    IF result.status /= "OK"
    THEN Append(markers, DefectMarker(result))
    ELSE markers

\* the dictionary returned when every stage completed
SuccessReport(id, now, status, results, markers, test) ==
    [ analysis_id      |-> id,
      timestamp        |-> <<now, "Z">>,
      overall_status   |-> status,
      components       |-> results,
      vr_data          |-> [defect_markers |-> markers],
      image_dimensions |-> [width |-> test.width, height |-> test.height] ]

\* the dictionary returned from the except clause
ErrorReportWithPartialResults(id, now, e) ==
    [ analysis_id    |-> id,
      timestamp      |-> <<now, "Z">>,
      overall_status |-> "ERROR",
      error          |-> e.str,
      components     |-> component_results,
      vr_data        |-> [defect_markers |-> defect_markers] ]

ErrorReport(id, now, e) ==
    [ analysis_id    |-> id,
      timestamp      |-> <<now, "Z">>,
      overall_status |-> "ERROR",
      error          |-> e.str,
      components     |-> << >>,
      vr_data        |-> [defect_markers |-> << >>] ]

\* a stage raised e: the except clause returns the error report
Fail(e) ==
    /\ raised' = e
    /\ stage' = "failed"
    /\ \E now \in ClockReadings : report' = ErrorReport(analysis_id, now, e)

\* analyze_pcb is called
AnalyzePcbCall ==
    /\ stage = "idle"
    /\ \E id \in AnalysisIds, pair \in ImagePairs :
          /\ analysis_id' = id
          /\ reference_img' = pair[1]
          /\ test_img' = pair[2]
    /\ stage' = "started"
    /\ UNCHANGED <<components, next_idx, observations, component_results,
                   defect_markers, overall_status, raised, report>>
    /\ UNCHANGED callVars

\* grayscale conversion and contrast enhancement of both images
Preprocess ==
    /\ stage = "started"
    /\ Convertible(reference_img) /\ Convertible(test_img)
    /\ stage' = "preprocessed"
    /\ UNCHANGED <<analysis_id, reference_img, test_img, components, next_idx,
                   observations, component_results, defect_markers,
                   overall_status, raised, report>>
    /\ UNCHANGED callVars

PreprocessRaises ==
    /\ stage = "started"
    /\ \E e \in (IF Convertible(reference_img) /\ Convertible(test_img)
                 THEN LibraryErrors ELSE {CvtColorError}) : Fail(e)
    /\ UNCHANGED <<analysis_id, reference_img, test_img, components, next_idx,
                   observations, component_results, defect_markers, overall_status>>
    /\ UNCHANGED callVars

\* components = self._detect_components(ref_gray), and the three locals
Segment ==
    /\ stage = "preprocessed"
    /\ components' = DetectComponents(reference_img.contours)
    /\ component_results' = << >>
    /\ defect_markers' = << >>
    /\ overall_status' = "OK"
    /\ next_idx' = 1
    /\ observations' = << >>
    /\ stage' = "segmented"
    /\ UNCHANGED <<analysis_id, reference_img, test_img, raised, report>>
    /\ UNCHANGED callVars

SegmentRaises ==
    /\ stage = "preprocessed"
    /\ \E e \in LibraryErrors : Fail(e)
    /\ UNCHANGED <<analysis_id, reference_img, test_img, components, next_idx,
                   observations, component_results, defect_markers, overall_status>>
    /\ UNCHANGED callVars

\* the accepted contours of the reference image, in traversal order
AcceptedContours(img) ==
    SelectSeq(img.contours, LAMBDA c : c.area >= MIN_AREA)

\* one iteration of "for component in components": the library answered obs
MatchComponent ==
    /\ stage \in {"segmented", "matching"}
    /\ next_idx <= Len(components)
    /\ \E obs \in PipelineObservations(components[next_idx],
                                       AcceptedContours(reference_img)[next_idx],
                                       test_img) :
          LET result == AnalyzeComponentOrb(components[next_idx], obs)
          IN  /\ observations' = Append(observations, obs)
              /\ IF "raises" \in DOMAIN result
                 THEN /\ Fail(result.raises)
                      /\ UNCHANGED <<component_results, overall_status,
                                     defect_markers, next_idx>>
                 ELSE /\ component_results' = Append(component_results, result)
                      /\ overall_status' = NextOverallStatus(overall_status, result)
                      /\ defect_markers' = NextDefectMarkers(defect_markers, result)
                      /\ next_idx' = next_idx + 1
                      /\ stage' = "matching"
                      /\ UNCHANGED <<raised, report>>
    /\ UNCHANGED <<analysis_id, reference_img, test_img, components>>
    /\ UNCHANGED callVars

\* one iteration in which a library call raised before answering
MatchRaises ==
    /\ stage \in {"segmented", "matching"}
    /\ next_idx <= Len(components)
    /\ \E e \in LibraryErrors : Fail(e)
    /\ UNCHANGED <<analysis_id, reference_img, test_img, components, next_idx,
                   observations, component_results, defect_markers, overall_status>>
    /\ UNCHANGED callVars

\* the report built without waiting for the end of the loop
AggregateBeforeLoopEnd ==
    /\ stage \in {"segmented", "matching"}
    /\ \E now \in ClockReadings :
          report' = SuccessReport(analysis_id, now, overall_status,
                                  component_results, defect_markers, test_img)
    /\ stage' = "aggregated"
    /\ UNCHANGED <<analysis_id, reference_img, test_img, components, next_idx,
                   observations, component_results, defect_markers,
                   overall_status, raised>>
    /\ UNCHANGED callVars

\* the loop is over: build and return the report
Aggregate ==
    /\ stage \in {"segmented", "matching"}
    /\ next_idx > Len(components)
    /\ \E now \in ClockReadings :
          report' = SuccessReport(analysis_id, now, overall_status,
                                  component_results, defect_markers, test_img)
    /\ stage' = "aggregated"
    /\ UNCHANGED <<analysis_id, reference_img, test_img, components, next_idx,
                   observations, component_results, defect_markers,
                   overall_status, raised>>
    /\ UNCHANGED callVars

\* DefectDetector.__init__: the thresholds of the configuration and an
\* ImageProcessor
DetectorAttributes ==
    [ confidence_threshold |-> CONFIDENCE_THRESHOLD,
      location_tolerance   |-> LOCATION_TOLERANCE,
      max_dimension        |-> MAX_DIMENSION ]

\* the detector is constructed; no preprocess_image or _calculate_vr_position
\* call of its own, no concurrent analyses
Constructed ==
    /\ detector = DetectorAttributes
    /\ pre_in = None /\ pre_out = << >>
    /\ vr_in = None /\ vr_out = None
    /\ runs = None

\* no _classify_component_type or _analyze_component_orb call of its own
NoCalls ==
    /\ cls_in = None /\ cls_out = NotCalled
    /\ orb_in = None /\ orb_out = None
    /\ Constructed

\* the detector is constructed, analyze_pcb was not called yet
Init ==
    /\ stage = "idle"
    /\ analysis_id = None
    /\ reference_img = None
    /\ test_img = None
    /\ components = << >>
    /\ next_idx = 1
    /\ observations = << >>
    /\ component_results = << >>
    /\ defect_markers = << >>
    /\ overall_status = "OK"
    /\ raised = None
    /\ report = None
    /\ NoCalls

Next ==
    \/ AnalyzePcbCall
    \/ Preprocess
    \/ PreprocessRaises
    \/ Segment
    \/ SegmentRaises
    \/ MatchComponent
    \/ MatchRaises
    \/ Aggregate

Spec == Init /\ [][Next]_vars

\* a stage of a running analysis: analyze_pcb is synchronous code without
\* suspension points, so a call that started keeps running
RunningStep ==
    \/ Preprocess
    \/ PreprocessRaises
    \/ Segment
    \/ SegmentRaises
    \/ MatchComponent
    \/ MatchRaises
    \/ Aggregate

FairSpec == Spec /\ WF_vars(RunningStep)

-----------------------------------------------------------------------------
(* One call of _classify_component_type on enumerated arguments            *)

ClassifierInputs ==
    [ area      : {100 * a : a \in 0..MaxAreaHundreds} \cup {IC_AREA + 1},
      perimeter : {10 * q : q \in 0..MaxPerimeterTens},
      width     : 0..MaxSide,
      height    : 0..MaxSide ]

InitClassifier ==
    /\ stage = "idle"
    /\ analysis_id = None
    /\ reference_img = None
    /\ test_img = None
    /\ components = << >>
    /\ next_idx = 1
    /\ observations = << >>
    /\ component_results = << >>
    /\ defect_markers = << >>
    /\ overall_status = "OK"
    /\ raised = None
    /\ report = None
    /\ cls_in \in ClassifierInputs
    /\ cls_out = NotCalled
    /\ orb_in = None
    /\ orb_out = None
    /\ Constructed

ClassifyCall ==
    /\ cls_in /= None
    /\ cls_out = NotCalled
    /\ cls_out' = ClassifyComponentType(cls_in.area, cls_in.perimeter,
                                        cls_in.width, cls_in.height)
    /\ UNCHANGED <<cls_in, orb_in, orb_out, pre_in, pre_out, vr_in, vr_out,
                   detector, runs>>
    /\ UNCHANGED pipelineVars

NextClassifier == ClassifyCall

SpecClassifier == InitClassifier /\ [][NextClassifier]_vars

-----------------------------------------------------------------------------
(* One call of _analyze_component_orb on enumerated library answers        *)

\* the component the call is about
MatcherComponent == MakeComponent(CapacitorContour, 1)

\* a match at the given descriptor distance whose keypoint lies at the
\* expected center moved by the offset
MatchAt(distance, offset) ==
    [ distance |-> distance,
      pt       |-> PtOf(<<MatcherComponent.expected_location[1] + offset[1],
                          MatcherComponent.expected_location[2] + offset[2]>>) ]

\* offsets at, just inside and just outside the tolerance circle
OffsetSamples ==
    { <<0, 0>>, <<6, 8>>, <<-8, -6>>, <<0, 10>>, <<0, 11>>, <<7, 8>>, <<10, 10>> }

\* every distance with the sampled offsets, and the distances around the
\* threshold with every offset
SingleMatches ==
    { MatchAt(d, off) : d \in 0..MaxDistance, off \in OffsetSamples }
    \cup
    { MatchAt(d, <<dx, dy>>) :
        d \in { DISTANCE_SCALE - CONFIDENCE_THRESHOLD - 1,
                DISTANCE_SCALE - CONFIDENCE_THRESHOLD,
                DISTANCE_SCALE - CONFIDENCE_THRESHOLD + 1 },
        dx \in -MaxOffset..MaxOffset, dy \in -MaxOffset..MaxOffset }

\* the matches that appear in lists of two
PairedMatches ==
    { MatchAt(d, off) : d \in {5, 20, 60}, off \in {<<0, 0>>, <<0, 11>>} }

MatchLists ==
    { << >> } \cup { <<m>> : m \in SingleMatches }
    \cup { <<m1, m2>> : m1 \in PairedMatches, m2 \in PairedMatches }

MatcherInputs ==
    { [component |-> MatcherComponent,
       obs |-> [des1 |-> d1, des2 |-> d2, matches |-> IF d1 /\ d2 THEN ms ELSE << >>]] :
        d1 \in BOOLEAN, d2 \in BOOLEAN, ms \in MatchLists }

InitMatcher ==
    /\ stage = "idle"
    /\ analysis_id = None
    /\ reference_img = None
    /\ test_img = None
    /\ components = << >>
    /\ next_idx = 1
    /\ observations = << >>
    /\ component_results = << >>
    /\ defect_markers = << >>
    /\ overall_status = "OK"
    /\ raised = None
    /\ report = None
    /\ cls_in = None
    /\ cls_out = NotCalled
    /\ orb_in \in MatcherInputs
    /\ orb_out = None
    /\ Constructed

AnalyzeComponentOrbCall ==
    /\ orb_in /= None
    /\ orb_out = None
    /\ orb_out' = AnalyzeComponentOrb(orb_in.component, orb_in.obs)
    /\ UNCHANGED <<cls_in, cls_out, orb_in, pre_in, pre_out, vr_in, vr_out,
                   detector, runs>>
    /\ UNCHANGED pipelineVars

NextMatcher == AnalyzeComponentOrbCall

SpecMatcher == InitMatcher /\ [][NextMatcher]_vars

-----------------------------------------------------------------------------
(* Properties of the report                                                *)

\* the number of components of a result list that are not OK
RECURSIVE CountNotOk(_)
CountNotOk(results) ==
    IF results = << >> THEN 0
    ELSE (IF Head(results).status /= "OK" THEN 1 ELSE 0) + CountNotOk(Tail(results))

\* C1: in a report of an analysis that completed without an exception,
\* overall_status is DEFECTS_FOUND if and only if some entry of components
\* has a status other than OK, and it is OK otherwise.
C1_OverallStatusIffDefect ==
    stage = "aggregated" =>
        LET defect == \E i \in 1..Len(report.components) :
                         report.components[i].status /= "OK"
        IN  /\ report.overall_status = (IF defect THEN "DEFECTS_FOUND" ELSE "OK")
            /\ report.components = component_results
            /\ Len(report.components) = Len(components)

\* a completed analysis whose first component is not OK and whose last is OK
C1_Witness ==
    /\ stage = "aggregated"
    /\ Len(report.components) >= 2
    /\ report.components[1].status /= "OK"
    /\ report.components[Len(report.components)].status = "OK"
    /\ report.overall_status = "DEFECTS_FOUND"

\* C2: in every report the markers are, in order, one per component that is
\* not OK, each with that component's name, its status as type, and the
\* position of its expected_location.
C2_MarkersMatchDefects ==
    report /= None =>
        LET results == report.components
            markers == report.vr_data.defect_markers
            \* the index in results of the k-th component that is not OK
            NotOkAt(k) ==
                CHOOSE i \in 1..Len(results) :
                    /\ results[i].status /= "OK"
                    /\ CountNotOk(SubSeq(results, 1, i)) = k
        IN  /\ Len(markers) = CountNotOk(results)
            /\ \A k \in 1..Len(markers) :
                  LET r == results[NotOkAt(k)]
                  IN  /\ markers[k].component = r.name
                      /\ markers[k].type = r.status
                      /\ markers[k].position.x[1] + REF_WIDTH
                            = 2 * r.expected_location[1]
                      /\ markers[k].position.x[2] = 2 * REF_WIDTH
                      /\ markers[k].position.y[1] = 0
                      /\ REF_HEIGHT - markers[k].position.z[1]
                            = 2 * r.expected_location[2]
                      /\ markers[k].position.z[2] = 2 * REF_HEIGHT

\* a report with an OK component between a MISSING and a MISALIGNED one, and
\* a marker for each of the two
C2_Witness ==
    /\ stage = "aggregated"
    /\ Len(report.components) = 3
    /\ report.components[1].status = "MISSING"
    /\ report.components[2].status = "OK"
    /\ report.components[3].status = "MISALIGNED"
    /\ report.components[3].detected_location /= report.components[3].expected_location
    /\ Len(report.vr_data.defect_markers) = 2
    /\ report.vr_data.defect_markers[1].type = "MISSING"

\* C3: when a stage raises, analyze_pcb returns a report with overall_status
\* ERROR, no components, no markers and the exception's text as error; every
\* exception raised is answered by such a report.
C3_ErrorReportOnException ==
    /\ (raised /= None) <=> (stage = "failed")
    /\ stage = "failed" =>
          /\ report /= None
          /\ report.overall_status = "ERROR"
          /\ report.components = << >>
          /\ report.vr_data.defect_markers = << >>
          /\ "error" \in DOMAIN report
          /\ report.error = raised.str
          /\ report.error /= ""
    /\ (report /= None /\ report.overall_status = "ERROR") => stage = "failed"

\* the matching of the third component raised after two results, one of them
\* with a marker, had been collected
C3_Witness ==
    /\ stage = "failed"
    /\ Len(component_results) = 2
    /\ Len(defect_markers) >= 1
    /\ next_idx = 3
    /\ report.components = << >>

\* C4 as claimed: every report, on success and on failure, holds analysis_id
\* (the identifier passed in), timestamp, overall_status, components,
\* vr_data.defect_markers and image_dimensions.
C4_EveryReportWellFormed ==
    report /= None =>
        /\ {"analysis_id", "timestamp", "overall_status", "components",
            "vr_data", "image_dimensions"} \subseteq DOMAIN report
        /\ report.analysis_id = analysis_id
        /\ "defect_markers" \in DOMAIN report.vr_data
        /\ DOMAIN report.image_dimensions = {"width", "height"}

-----------------------------------------------------------------------------
(* Properties of one matcher call (SpecMatcher)                            *)

\* the library answered with nothing to match
NothingToMatch(obs) == ~obs.des1 \/ ~obs.des2 \/ obs.matches = << >>

\* the least descriptor distance of a non-empty list of matches
LeastDistance(matches) ==
    CHOOSE d \in {matches[i].distance : i \in 1..Len(matches)} :
        \A i \in 1..Len(matches) : d <= matches[i].distance

\* the pixel of the first match at the least distance
CenterOfBest(matches) ==
    LET first == CHOOSE i \in 1..Len(matches) :
                    /\ matches[i].distance = LeastDistance(matches)
                    /\ \A j \in 1..(i - 1) : matches[j].distance /= LeastDistance(matches)
        pt == matches[first].pt
    IN  <<(pt[1] - (pt[1] % 2)) \div 2, (pt[2] - (pt[2] % 2)) \div 2>>

\* the squared distance between two pixels
SquaredDistance(a, b) ==
    (a[1] - b[1]) * (a[1] - b[1]) + (a[2] - b[2]) * (a[2] - b[2])

\* C5: the status is MISSING exactly when no center was detected or the
\* confidence is below CONFIDENCE_THRESHOLD, otherwise MISALIGNED exactly when
\* the deviation exceeds LOCATION_TOLERANCE, otherwise OK.
C5_StatusDecision ==
    orb_out /= None =>
        LET obs == orb_in.obs
            expected == orb_in.component.expected_location
            missing ==
                \/ NothingToMatch(obs)
                \/ DISTANCE_SCALE - LeastDistance(obs.matches) < CONFIDENCE_THRESHOLD
            misaligned ==
                /\ ~missing
                /\ SquaredDistance(CenterOfBest(obs.matches), expected)
                      > LOCATION_TOLERANCE * LOCATION_TOLERANCE
        IN  /\ "status" \in DOMAIN orb_out
            /\ orb_out.status =
                  (IF missing THEN "MISSING"
                   ELSE IF misaligned THEN "MISALIGNED" ELSE "OK")

\* a match with confidence exactly at the threshold and deviation exactly at
\* the tolerance resolved to OK
C5_Witness ==
    /\ orb_out /= None
    /\ Len(orb_in.obs.matches) = 1
    /\ orb_out.confidence = CONFIDENCE_THRESHOLD
    /\ orb_out.deviation_pixels = [squared |-> LOCATION_TOLERANCE * LOCATION_TOLERANCE]
    /\ orb_out.status = "OK"

\* C6 as claimed: the confidence of every result lies within [0, 1].
C6_ConfidenceInUnitInterval ==
    orb_out /= None =>
        /\ orb_out.confidence >= 0
        /\ orb_out.confidence <= DISTANCE_SCALE

\* C9: status is MISSING if and only if detected_location is None, and if and
\* only if deviation_pixels is None; otherwise detected_location is the
\* matcher's detected center and deviation_pixels its distance from
\* expected_location.
C9_MissingIffNoLocation ==
    orb_out /= None =>
        /\ (orb_out.status = "MISSING") <=> (orb_out.detected_location = None)
        /\ (orb_out.status = "MISSING") <=> (orb_out.deviation_pixels = None)
        /\ orb_out.status \in {"OK", "MISALIGNED"} =>
              /\ orb_out.detected_location = CenterOfBest(orb_in.obs.matches)
              /\ orb_out.deviation_pixels =
                    [squared |-> SquaredDistance(CenterOfBest(orb_in.obs.matches),
                                                 orb_in.component.expected_location)]
              /\ orb_out.expected_location = orb_in.component.expected_location

\* a low-confidence best match far from the expected center resolved to
\* MISSING with no location
C9_Witness ==
    /\ orb_out /= None
    /\ orb_in.obs.matches /= << >>
    /\ orb_out.confidence < CONFIDENCE_THRESHOLD
    /\ SquaredDistance(CenterOfBest(orb_in.obs.matches),
                       orb_in.component.expected_location)
          > LOCATION_TOLERANCE * LOCATION_TOLERANCE
    /\ orb_out.status = "MISSING"
    /\ orb_out.detected_location = None

-----------------------------------------------------------------------------
(* Properties of one classifier call (SpecClassifier)                      *)

\* C7: for every (area, perimeter, width, height), zero height and zero
\* perimeter included, the classifier returns the type of the first rule that
\* matches: capacitor if circularity > 0.7 (0 when perimeter = 0), else
\* resistor if width/height > 2 or < 0.5 (1 when height = 0), else ic if
\* area > 1000, else component.
C7_ClassifierPrecedence ==
    cls_out /= NotCalled =>
        LET a == cls_in.area
            q == cls_in.perimeter
            w == cls_in.width
            h == cls_in.height
            rule1 == q /= 0 /\ 4 * 355 * a * 10 > 7 * q * q * 113
            rule2 == h /= 0 /\ (w > 2 * h \/ 2 * w < h)
            rule3 == a > IC_AREA
        IN  /\ cls_out \in {"capacitor", "resistor", "ic", "component"}
            /\ rule1 => cls_out = "capacitor"
            /\ (~rule1 /\ rule2) => cls_out = "resistor"
            /\ (~rule1 /\ ~rule2 /\ rule3) => cls_out = "ic"
            /\ (~rule1 /\ ~rule2 /\ ~rule3) => cls_out = "component"

\* a contour that is both round and elongated was classified as a capacitor
C7_Witness ==
    /\ cls_out = "capacitor"
    /\ cls_in.perimeter > 0
    /\ cls_in.height > 0
    /\ cls_in.width > 2 * cls_in.height

-----------------------------------------------------------------------------
(* Properties of segmentation and of the matching loop (Spec)              *)

\* the number a sequence of decimal digits denotes
RECURSIVE ParseDecimal(_)
ParseDecimal(digits) ==
    IF digits = << >> THEN 0
    ELSE 10 * ParseDecimal(SubSeq(digits, 1, Len(digits) - 1)) + digits[Len(digits)]

\* the indices of the contours that are not noise
AcceptedIndices(contours) ==
    {i \in 1..Len(contours) : ~(contours[i].area < MIN_AREA)}

\* the index of the k-th contour that is not noise
KthAccepted(contours, k) ==
    CHOOSE i \in AcceptedIndices(contours) :
        Cardinality({j \in AcceptedIndices(contours) : j <= i}) = k

\* C8: contours with area < 100 get no component and no number; the k-th
\* accepted contour, in traversal order, is named "{type}_{k:02d}" with k
\* counting from 1 in steps of 1, so names are unique and without gaps; the
\* report lists the components in that order.
C8_SequentialNames ==
    stage \in {"segmented", "matching", "aggregated"} =>
        LET contours == reference_img.contours
        IN  /\ Len(components) = Cardinality(AcceptedIndices(contours))
            /\ \A k \in 1..Len(components) :
                  LET c == components[k]
                      digits == SubSeq(c.name, 3, Len(c.name))
                  IN  /\ c.bounding_box = contours[KthAccepted(contours, k)].box
                      /\ c.area = contours[KthAccepted(contours, k)].area
                      /\ c.name[1] = c.type
                      /\ c.name[2] = "_"
                      /\ Len(digits) >= 2
                      /\ (k < 100 => Len(digits) = 2)
                      /\ \A d \in 1..Len(digits) : digits[d] \in 0..9
                      /\ ParseDecimal(digits) = k
            /\ \A k1, k2 \in 1..Len(components) :
                  components[k1].name = components[k2].name => k1 = k2
            /\ stage = "aggregated" =>
                  /\ Len(report.components) = Len(components)
                  /\ \A k \in 1..Len(components) :
                        report.components[k].name = components[k].name

\* the report of a board whose second contour is noise and whose tenth
\* component is named with the digits 1 0
C8_Witness ==
    /\ stage = "aggregated"
    /\ Len(reference_img.contours) >= 11
    /\ reference_img.contours[2].area < MIN_AREA
    /\ Len(report.components) >= 10
    /\ report.components[2].name = <<"capacitor", "_", 0, 2>>
    /\ report.components[10].name = <<"capacitor", "_", 1, 0>>

\* C10: when the template or the test image yields no descriptors, or no
\* descriptor matches, the call does not raise: the component's result is
\* MISSING with confidence 0 and no location, and the loop goes on.
C10_NoFeaturesIsMissing ==
    \A i \in 1..Len(observations) :
        NothingToMatch(observations[i]) =>
            /\ i <= Len(component_results)
            /\ component_results[i].name = components[i].name
            /\ component_results[i].status = "MISSING"
            /\ component_results[i].confidence = 0
            /\ component_results[i].detected_location = None
            /\ component_results[i].deviation_pixels = None
            /\ (i = Len(observations) /\ raised = None) =>
                  /\ next_idx = i + 1
                  /\ stage \in {"matching", "aggregated"}

\* a component without descriptors, one without a match, and after them a
\* component that was matched and found OK
C10_Witness ==
    /\ stage = "aggregated"
    /\ Len(observations) = 3
    /\ ~observations[1].des1
    /\ observations[2].des1 /\ observations[2].des2 /\ observations[2].matches = << >>
    /\ report.components[1].status = "MISSING"
    /\ report.components[2].status = "MISSING"
    /\ report.components[3].status = "OK"

-----------------------------------------------------------------------------
(* Properties of the stages of one analysis (FairSpec)                     *)

TerminalStages == {"aggregated", "failed"}

\* the moves between stages that the orchestrator's state machine allows
AllowedMoves ==
    { <<"idle", "started">>,
      <<"started", "preprocessed">>,
      <<"preprocessed", "segmented">>,
      <<"segmented", "matching">>,
      <<"matching", "matching">>,
      <<"segmented", "aggregated">>,
      <<"matching", "aggregated">> }
    \cup { <<s, "failed">> : s \in {"started", "preprocessed", "segmented", "matching"} }

\* one step of an analysis, as the claim describes it
OrderedStep ==
    /\ <<stage, stage'>> \in AllowedMoves
    /\ stage \notin TerminalStages
    /\ stage' = "matching" =>
          /\ next_idx <= Len(components)
          /\ next_idx' = next_idx + 1
          /\ Len(component_results') = next_idx
          /\ component_results'[next_idx].name = components[next_idx].name
          /\ SubSeq(component_results', 1, next_idx - 1) = component_results
    /\ stage' = "aggregated" =>
          /\ Len(component_results) = Len(components)
          /\ next_idx = Len(components) + 1
    /\ (report' /= report) => (report = None /\ stage' \in TerminalStages)

\* C11: an analysis moves through STARTED, PREPROCESSED, SEGMENTED, MATCHING
\* (once per component, in component order), AGGREGATED in this order only,
\* or from a non-terminal stage to FAILED; AGGREGATED and FAILED are
\* terminal, hold exactly one report, and one of them is eventually reached.
C11_StagesInOrder ==
    /\ [][OrderedStep]_vars
    /\ []((report /= None) <=> (stage \in TerminalStages))
    /\ [](stage \in {"segmented", "matching", "aggregated"} =>
             components = DetectComponents(reference_img.contours))
    /\ (stage = "started") ~> (stage \in TerminalStages)

\* an analysis that matched three components and then returned its report
C11_Witness ==
    /\ stage = "aggregated"
    /\ Len(components) = 3
    /\ Len(report.components) = 3
    /\ next_idx = 4

-----------------------------------------------------------------------------
(* Concurrent analyze_pcb calls on the one DefectDetector of src/app.py    *)
(*                                                                         *)
(* Each request handler calls defect_detector.analyze_pcb with its own     *)
(* images and identifier.  A run holds the arguments and locals of one     *)
(* call; detector holds the attributes of the shared object.  A step is    *)
(* one stage of one call, and the steps of different calls interleave.     *)

Requests == 1..NumRequests

\* str(uuid.uuid4()): one identifier per request
RequestId(r) == <<"uuid", r>>

\* the contour lists of the reference images analysed concurrently
ConcurrentBoards ==
    { <<CapacitorContour>>,
      <<ResistorContour, Shifted(CapacitorContour, 100)>> }

\* a call that has not started
IdleRun ==
    [ stage             |-> "idle",
      analysis_id       |-> None,
      reference_img     |-> None,
      test_img          |-> None,
      components        |-> << >>,
      next_idx          |-> 1,
      observations      |-> << >>,
      component_results |-> << >>,
      defect_markers    |-> << >>,
      overall_status    |-> "OK",
      raised            |-> None,
      report            |-> None ]

\* the list the loop of call r appends to, were it an attribute of the
\* detector that the first call created
SharedResults(r) == runs[1].component_results

\* the list the loop of call r appends to: the local component_results
LocalResults(r) == runs[r].component_results

\* the except clause of call r
RunFails(r, e) ==
    \E now \in ClockReadings :
        runs' = [runs EXCEPT ![r].stage = "failed",
                             ![r].raised = e,
                             ![r].report = ErrorReport(runs[r].analysis_id, now, e)]

RunCall(r) ==
    /\ runs[r].stage = "idle"
    /\ \E board \in ConcurrentBoards :
          runs' = [runs EXCEPT ![r].stage = "started",
                               ![r].analysis_id = RequestId(r),
                               ![r].reference_img = ReferenceImage(board),
                               ![r].test_img = TexturedTestImage]
    /\ UNCHANGED detector

RunPreprocess(r) ==
    /\ runs[r].stage = "started"
    /\ Convertible(runs[r].reference_img) /\ Convertible(runs[r].test_img)
    /\ runs' = [runs EXCEPT ![r].stage = "preprocessed"]
    /\ UNCHANGED detector

RunSegment(r) ==
    /\ runs[r].stage = "preprocessed"
    /\ runs' = [runs EXCEPT ![r].stage = "segmented",
                            ![r].components =
                                DetectComponents(runs[r].reference_img.contours),
                            ![r].component_results = << >>,
                            ![r].defect_markers = << >>,
                            ![r].overall_status = "OK",
                            ![r].next_idx = 1]
    /\ UNCHANGED detector

RunMatchComponent(r) ==
    /\ runs[r].stage \in {"segmented", "matching"}
    /\ runs[r].next_idx <= Len(runs[r].components)
    /\ \E obs \in PipelineObservations(
                      runs[r].components[runs[r].next_idx],
                      AcceptedContours(runs[r].reference_img)[runs[r].next_idx],
                      runs[r].test_img) :
          LET result == AnalyzeComponentOrb(runs[r].components[runs[r].next_idx], obs)
          IN  runs' = [runs EXCEPT
                          ![r].stage = "matching",
                          ![r].observations = Append(runs[r].observations, obs),
                          ![r].component_results = Append(LocalResults(r), result),
                          ![r].overall_status =
                              NextOverallStatus(runs[r].overall_status, result),
                          ![r].defect_markers =
                              NextDefectMarkers(runs[r].defect_markers, result),
                          ![r].next_idx = runs[r].next_idx + 1]
    /\ UNCHANGED detector

RunRaises(r) ==
    /\ runs[r].stage \in {"started", "preprocessed", "segmented", "matching"}
    /\ runs[r].stage \in {"segmented", "matching"} =>
          runs[r].next_idx <= Len(runs[r].components)
    /\ \E e \in LibraryErrors : RunFails(r, e)
    /\ UNCHANGED detector

RunAggregate(r) ==
    /\ runs[r].stage \in {"segmented", "matching"}
    /\ runs[r].next_idx > Len(runs[r].components)
    /\ \E now \in ClockReadings :
          runs' = [runs EXCEPT
                      ![r].stage = "aggregated",
                      ![r].report =
                          SuccessReport(runs[r].analysis_id, now,
                                        runs[r].overall_status, LocalResults(r),
                                        runs[r].defect_markers, runs[r].test_img)]
    /\ UNCHANGED detector

InitConcurrent ==
    /\ stage = "idle"
    /\ analysis_id = None
    /\ reference_img = None
    /\ test_img = None
    /\ components = << >>
    /\ next_idx = 1
    /\ observations = << >>
    /\ component_results = << >>
    /\ defect_markers = << >>
    /\ overall_status = "OK"
    /\ raised = None
    /\ report = None
    /\ cls_in = None /\ cls_out = NotCalled
    /\ orb_in = None /\ orb_out = None
    /\ pre_in = None /\ pre_out = << >>
    /\ vr_in = None /\ vr_out = None
    /\ detector = DetectorAttributes
    /\ runs = [r \in Requests |-> IdleRun]

NextConcurrent ==
    /\ \E r \in Requests :
          \/ RunCall(r)
          \/ RunPreprocess(r)
          \/ RunSegment(r)
          \/ RunMatchComponent(r)
          \/ RunRaises(r)
          \/ RunAggregate(r)
    /\ UNCHANGED pipelineVars
    /\ UNCHANGED <<cls_in, cls_out, orb_in, orb_out, pre_in, pre_out, vr_in, vr_out>>

SpecConcurrent == InitConcurrent /\ [][NextConcurrent]_vars

-----------------------------------------------------------------------------
(* Properties of concurrent analyses (SpecConcurrent)                      *)

\* what a call alone computes from its own components and the library's
\* answers for them
SoloResults(comps, obs) ==
    [i \in 1..Len(obs) |-> AnalyzeComponentOrb(comps[i], obs[i])]

\* the markers of the results that are not OK, in order
RECURSIVE SoloMarkers(_)
SoloMarkers(results) ==
    IF results = << >> THEN << >>
    ELSE (IF Head(results).status = "OK" THEN << >>
          ELSE << [ position  |-> CalculateVrPosition(Head(results).expected_location),
                    type      |-> Head(results).status,
                    component |-> Head(results).name ] >>)
         \o SoloMarkers(Tail(results))

SoloStatus(results) ==
    IF \E i \in 1..Len(results) : results[i].status /= "OK"
    THEN "DEFECTS_FOUND" ELSE "OK"

\* C12: analyses running concurrently on the shared detector do not
\* interfere: the detector's attributes are never written, and under every
\* interleaving each analysis holds and returns the components, statuses and
\* markers it computes alone from its own images.
C12_NoInterference ==
    runs /= None =>
        /\ detector = DetectorAttributes
        /\ \A r \in Requests :
              LET run == runs[r]
                  solo == SoloResults(run.components, run.observations)
              IN  /\ run.stage \in {"segmented", "matching", "aggregated"} =>
                        /\ run.components = DetectComponents(run.reference_img.contours)
                        /\ run.component_results = solo
                        /\ run.defect_markers = SoloMarkers(solo)
                        /\ run.overall_status = SoloStatus(solo)
                  /\ run.stage = "aggregated" =>
                        /\ Len(solo) = Len(run.components)
                        /\ run.report.analysis_id = RequestId(r)
                        /\ run.report.components = solo
                        /\ run.report.vr_data.defect_markers = SoloMarkers(solo)
                        /\ run.report.overall_status = SoloStatus(solo)
                  /\ run.stage = "failed" =>
                        /\ run.report.analysis_id = RequestId(r)
                        /\ run.report.components = << >>

\* the second analysis returned a report with a defect while the first one,
\* on another board, was in the middle of its loop with one result, an OK one
C12_Witness ==
    /\ runs /= None
    /\ runs[1].stage = "matching"
    /\ Len(runs[1].components) = 1
    /\ runs[1].component_results[1].status = "OK"
    /\ runs[2].stage = "aggregated"
    /\ Len(runs[2].report.components) = 2
    /\ runs[2].report.overall_status = "DEFECTS_FOUND"

-----------------------------------------------------------------------------
(* ImageProcessor.preprocess_image: resize, denoise, normalize             *)
(*                                                                         *)
(* An image is its shape [height, width].  A call that raises is the       *)
(* record [raises |-> e].  pre_out lists the calls made so far: the input  *)
(* of each, what resize_image gave and what preprocess_image gave.         *)

\* the heights and widths of the images preprocessed
Sides ==
    {0, 1, 2, 3, 480, 596, 1080, 1919, 1920, 1921, 2148, 2384, 3840, 4000}

\* the pairs <<x, L>> of Sides, L above max_dimension and x <= L, for which
\* the double product x * (1920 / L) is below the integer x * 1920 / L,
\* because the double quotient 1920 / L is rounded down
RoundsBelow ==
    { <<2148, 2148>>, <<596, 2384>>, <<2384, 2384>> }

\* int(x * scale) with scale = self.max_dimension / L in double arithmetic
FloatScaled(x, L) ==
    ((x * MAX_DIMENSION) \div L) - (IF <<x, L>> \in RoundsBelow THEN 1 ELSE 0)

ResizeError ==
    [type |-> "cv2.error", str |-> "(-215:Assertion failed) inv_scale_x > 0 in function 'resize'"]

EmptyImageError ==
    [type |-> "cv2.error", str |-> "(-215:Assertion failed) !_src.empty()"]

\* what a build of the library does with an image without pixels
EmptyImageBehaviours == {"raises", "returns"}

Raised(x) == "raises" \in DOMAIN x

IsEmpty(image) == image.height = 0 \/ image.width = 0

\* cv2.resize(image, (new_width, new_height)): with an empty dsize and no
\* fx, fy the size cannot be computed
CvResize(image, new_width, new_height) ==
    IF IsEmpty(image) \/ new_width <= 0 \/ new_height <= 0
    THEN [raises |-> ResizeError]
    ELSE [height |-> new_height, width |-> new_width]

ResizeImage(image) ==
    LET height == image.height
        width  == image.width
        longer == IF height > width THEN height ELSE width
    IN  IF longer <= MAX_DIMENSION
        THEN image
        ELSE CvResize(image, FloatScaled(width, longer), FloatScaled(height, longer))

\* cv2.GaussianBlur(image, (3, 3), 0): the shape is kept
ReduceNoise(image, lib) ==
    IF IsEmpty(image) /\ lib = "raises" THEN [raises |-> EmptyImageError] ELSE image

\* astype, cv2.normalize in place, astype: the shape is kept
NormalizeImage(image, lib) ==
    IF IsEmpty(image) /\ lib = "raises" THEN [raises |-> EmptyImageError] ELSE image

PreprocessImage(image, lib) ==
    LET resized_image == ResizeImage(image)
    IN  IF Raised(resized_image) THEN resized_image
        ELSE LET denoised_image == ReduceNoise(resized_image, lib)
             IN  IF Raised(denoised_image) THEN denoised_image
                 ELSE NormalizeImage(denoised_image, lib)

PreprocessRecord(image, lib) ==
    [ input   |-> image,
      resized |-> ResizeImage(image),
      output  |-> PreprocessImage(image, lib) ]

\* preprocess_image on the image given
PreprocessImageCall ==
    /\ pre_in /= None
    /\ pre_out = << >>
    /\ \E lib \in EmptyImageBehaviours :
          pre_out' = <<PreprocessRecord(pre_in, lib)>>
    /\ UNCHANGED pre_in

\* preprocess_image on the image the first call returned
PreprocessImageAgain ==
    /\ Len(pre_out) = 1
    /\ ~Raised(pre_out[1].output)
    /\ \E lib \in EmptyImageBehaviours :
          pre_out' = Append(pre_out, PreprocessRecord(pre_out[1].output, lib))
    /\ UNCHANGED pre_in

InitPreprocess ==
    /\ stage = "idle"
    /\ analysis_id = None
    /\ reference_img = None
    /\ test_img = None
    /\ components = << >>
    /\ next_idx = 1
    /\ observations = << >>
    /\ component_results = << >>
    /\ defect_markers = << >>
    /\ overall_status = "OK"
    /\ raised = None
    /\ report = None
    /\ cls_in = None /\ cls_out = NotCalled
    /\ orb_in = None /\ orb_out = None
    /\ pre_in \in [height : Sides, width : Sides]
    /\ pre_out = << >>
    /\ vr_in = None /\ vr_out = None
    /\ detector = DetectorAttributes
    /\ runs = None

NextPreprocess ==
    /\ \/ PreprocessImageCall
       \/ PreprocessImageAgain
    /\ UNCHANGED pipelineVars
    /\ UNCHANGED <<cls_in, cls_out, orb_in, orb_out, vr_in, vr_out, detector, runs>>

SpecPreprocess == InitPreprocess /\ [][NextPreprocess]_vars

-----------------------------------------------------------------------------
(* Properties of preprocess_image (SpecPreprocess)                         *)

\* C13: the preprocessor fails only on an image with a zero dimension: for
\* an image whose height and width are both at least 1, however large and
\* whatever its aspect ratio, it returns an image with both dimensions at
\* least 1.
C13_FailsOnlyOnZeroDimension ==
    \A k \in 1..Len(pre_out) :
        (pre_out[k].input.height >= 1 /\ pre_out[k].input.width >= 1) =>
            /\ ~Raised(pre_out[k].output)
            /\ pre_out[k].output.height >= 1
            /\ pre_out[k].output.width >= 1

\* the longer and the shorter side of an image
LongerSide(image) ==
    IF image.height > image.width THEN image.height ELSE image.width

ShorterSide(image) ==
    IF image.height > image.width THEN image.width ELSE image.height

\* C14: the resize step returns its input unchanged whenever
\* max(height, width) <= MAX_DIM, and otherwise an image whose longer side
\* equals MAX_DIM and whose shorter side is scaled by the same factor; so
\* the output has max(height, width) <= MAX_DIM and a second application of
\* the preprocessor to its own output leaves the dimensions unchanged.
C14_ResizeDimensions ==
    /\ \A k \in 1..Len(pre_out) :
          LET image   == pre_out[k].input
              resized == pre_out[k].resized
          IN  ~Raised(resized) =>
                 /\ LongerSide(image) <= MAX_DIMENSION => resized = image
                 /\ LongerSide(image) > MAX_DIMENSION =>
                       /\ LongerSide(resized) = MAX_DIMENSION
                       /\ ShorterSide(resized) =
                             (ShorterSide(image) * MAX_DIMENSION) \div LongerSide(image)
                       /\ (image.height > image.width) => (resized.height >= resized.width)
                       /\ (image.width > image.height) => (resized.width >= resized.height)
                 /\ LongerSide(resized) <= MAX_DIMENSION
    /\ (Len(pre_out) = 2 /\ ~Raised(pre_out[2].output)) =>
          pre_out[2].output = pre_out[1].output

-----------------------------------------------------------------------------
(* One call of _calculate_vr_position (SpecMapper)                         *)

\* the expected_location of a result: the centre of a bounding box
MapperCoords ==
    { <<px, py>> : px \in {0, 1, 640, 959, 960, 1919, 1920, 2500},
                   py \in {0, 1, 480, 539, 540, 1079, 1080, 1500} }

\* the shapes of the test images analysed
MapperImages ==
    { [height |-> 480, width |-> 640],
      [height |-> 1080, width |-> 1920],
      [height |-> 2160, width |-> 3840] }

\* a result that is not OK, of a component of the image analysed
MapperInputs ==
    [ image_coords   : MapperCoords,
      image          : MapperImages,
      component_type : {"IC", "Resistor"},
      status         : {"MISSING", "MISALIGNED"} ]

CalculateVrPositionCall ==
    /\ vr_in /= None
    /\ vr_out = None
    /\ vr_out' = CalculateVrPosition(vr_in.image_coords)
    /\ UNCHANGED vr_in

InitMapper ==
    /\ stage = "idle"
    /\ analysis_id = None
    /\ reference_img = None
    /\ test_img = None
    /\ components = << >>
    /\ next_idx = 1
    /\ observations = << >>
    /\ component_results = << >>
    /\ defect_markers = << >>
    /\ overall_status = "OK"
    /\ raised = None
    /\ report = None
    /\ cls_in = None /\ cls_out = NotCalled
    /\ orb_in = None /\ orb_out = None
    /\ pre_in = None /\ pre_out = << >>
    /\ vr_in \in MapperInputs
    /\ vr_out = None
    /\ detector = DetectorAttributes
    /\ runs = None

NextMapper ==
    /\ CalculateVrPositionCall
    /\ UNCHANGED pipelineVars
    /\ UNCHANGED <<cls_in, cls_out, orb_in, orb_out, pre_in, pre_out, detector, runs>>

SpecMapper == InitMapper /\ [][NextMapper]_vars

\* the fraction <<n, d>> equals p / q
FractionIs(f, p, q) == f[2] > 0 /\ q > 0 /\ f[1] * q = p * f[2]

\* C15: for every image coordinate (px, py) the marker position is
\* x = px/1920 - 0.5, y = 0, z = 0.5 - py/1080, with the fixed reference
\* dimensions 1920 x 1080 whatever the width and height of the image
\* analysed, and whatever the component and the status.
C15_FixedReferenceMapping ==
    (vr_in /= None /\ vr_out /= None) =>
        LET px == vr_in.image_coords[1]
            py == vr_in.image_coords[2]
        IN  /\ FractionIs(vr_out.x, 2 * px - 1920, 2 * 1920)
            /\ FractionIs(vr_out.y, 0, 1)
            /\ FractionIs(vr_out.z, 1080 - 2 * py, 2 * 1080)

\* the lower right corner of a 640 x 480 image is mapped to x = -1/6,
\* z = 1/18, not to the corner (0.5, -0.5) of the reference frame
C15_Witness ==
    /\ vr_in /= None /\ vr_out /= None
    /\ vr_in.image = [height |-> 480, width |-> 640]
    /\ vr_in.image_coords = <<640, 480>>
    /\ FractionIs(vr_out.x, -1, 6)
    /\ FractionIs(vr_out.z, 1, 18)

=============================================================================
